---- MODULE Spec2Model ----
(***************************************************************************)
(* A model of the incremental archive synchronisation pipeline of the      *)
(* Substack downloader: the paginated metadata fetch (fetcher.py), the     *)
(* tracker ledger (epub_tracker.py), the EPUB compile with append          *)
(* (compiler/formats/epub.py) and the orchestrator (orchestrator.py).      *)
(*                                                                         *)
(* The specifications:                                                     *)
(*   Spec        run_download calls over a small remote archive that grows *)
(*   SpecEnv     Spec plus the user removing the EPUB file between runs    *)
(*   SpecFetch   one fetch_archive_metadata call over archives that span   *)
(*               up to three pages                                         *)
(*   SpecDiff    one EpubTracker.get_new_posts call                        *)
(*   SpecConc    one fetch_all_content_concurrent call                     *)
(*   SpecCache   fetch_post_content calls with the cache enabled           *)
(*   SpecAuth    the fetcher's construction and verify_auth                *)
(*   SpecImage   one download_image call                                   *)
(*   SpecTracker EpubTracker.save and load on one tracker file             *)
(*   SpecEpub    EPUBFormatter.compile calls on one target path            *)
(*   SpecParser  parse_content applied once and twice                      *)
(*   SpecRetry   one network operation and the transport's retries         *)
(*   SpecShift   run_download while the newsletter goes on publishing      *)
(*   SpecPair    run_download calls for several newsletters                *)
(***************************************************************************)
EXTENDS Integers, Sequences, FiniteSets, TLC

VARIABLES
    remote,         \* the archive the server holds, newest first (sort=new)
    epub,           \* the EPUB file at epub_path: [exists, chapters]
    ledger,         \* the tracker file at tracker_path: [exists, post_links]
    output_file,    \* the non-EPUB artifact the current run wrote, by format
    pc,             \* where run_download is
    mode,           \* run_download's mode argument
    format_option,  \* run_download's format_option argument
    limit,          \* fetch_archive_metadata's limit argument (0: None or 0)
    posts,          \* fetch_archive_metadata: posts accumulated so far
    offset,         \* fetch_archive_metadata: offset of the next page request
    requests,       \* archive page requests issued by the current fetch
    failed,         \* how the last page request of the current fetch went
    fstate,         \* fetch_archive_metadata: idle, loop, returned or raised
    result,         \* what fetch_archive_metadata returned (all_metadata)
    metadata_list,  \* run_download's metadata_list
    cleaned_posts,  \* run_download's cleaned_posts
    status,         \* the outcome of the run: a status, or the exception raised
    calls,          \* which collaborators the current run has called
    epub0,          \* the EPUB file when the current run started
    ledger0,        \* the tracker file when the current run started
    runs,           \* run_download calls made so far
    post_list,      \* fetch_all_content_concurrent: the posts, content set in place
    futures,        \* fetch_all_content_concurrent: one future per post
    completed,      \* fetch_all_content_concurrent: futures handled so far
    workers,        \* fetch_all_content_concurrent: size of the worker pool
    conc_result,    \* what fetch_all_content_concurrent returned
    cache,          \* the cache directory: one entry per cache key
    web,            \* what the server holds for each post URL right now
    net_requests,   \* GET requests the content fetches have issued
    last_fetch,     \* the last fetch_post_content call and what it returned
    fetcher,        \* the SubstackFetcher the constructor call produced
    auth,           \* the last verify_auth call and what it returned
    img,            \* download_image: its locals and where it is
    images_dir,     \* the files of the images directory, with their sizes
    tracker_file,   \* SpecTracker: the content of the file at tracker_path
    loaded,         \* SpecTracker: what the last EpubTracker.load call gave
    raw_html,   \* SpecParser: the HTML text parse_content is given
    reparsed,       \* SpecParser: what parse_content returned, once and twice
    net,            \* SpecRetry: one network operation and its attempts
    output_dir,     \* SpecPair: the EPUB/ledger pair at each path of OUTPUT_DIR
    last_run        \* SpecPair: the last run_download call and what it touched

concVars == <<post_list, futures, completed, workers, conc_result>>
cacheVars == <<cache, web, net_requests, last_fetch>>
authVars == <<fetcher, auth>>
imageVars == <<img, images_dir>>
trackerVars == <<tracker_file, loaded>>
parserVars == <<raw_html, reparsed>>
netVars == <<net>>
pairVars == <<output_dir, last_run>>
lateVars == <<parserVars, netVars, pairVars>>

\* the variables of the components run_download does not reach in this model
extVars == <<concVars, cacheVars, authVars, imageVars, trackerVars, lateVars>>

\* the variables of run_download and its fetch, without pc
coreVars == <<remote, epub, ledger, output_file, mode, format_option, limit,
              posts, offset, requests, failed, fstate, result, metadata_list,
              cleaned_posts, status, calls, epub0, ledger0, runs>>

vars == <<pc, coreVars, extVars>>

fetchVars == <<limit, posts, offset, requests, failed, fstate, result>>
fileVars == <<epub, ledger, output_file>>

-----------------------------------------------------------------------------
(* Bounds of the model                                                     *)

MaxPosts == 2        \* Spec: items the remote archive grows to
MaxRuns == 2         \* Spec: run_download calls
MaxLimit == 1        \* Spec: largest limit argument of run_download
MaxItems == 25       \* SpecFetch: items of the archive (three pages)
MaxFetchLimit == 13  \* SpecFetch: largest limit (reached on the second page)
MaxLen == 3          \* SpecDiff: posts handed to get_new_posts
MaxConcPosts == 3    \* SpecConc: posts handed to fetch_all_content_concurrent
MaxWorkers == 2      \* SpecConc: largest max_workers argument
MaxUrls == 2         \* SpecCache: post URLs
MaxRequests == 3     \* SpecCache: GET requests of the content fetches
MaxLinks == 2        \* SpecTracker: links handed to EpubTracker.save
MaxChapters == 4     \* SpecEpub: chapters the EPUB grows to
MaxNew == 2          \* SpecEpub: posts handed to one compile
MaxTokens == 3       \* SpecParser: pieces of the anchor's inner HTML
MaxShiftItems == 13  \* SpecShift: items the archive grows to during a fetch

(* Program constants                                                       *)

API_LIMIT_PER_REQUEST == 12
MAX_CONCURRENT_FETCHES == 5
IMAGE_CHUNK_SIZE == 8192
MAX_IMAGE_SIZE == 10485760
MAX_RETRIES == 3
RETRY_STATUS_CODES == {429, 500, 502, 503, 504}

-----------------------------------------------------------------------------
(* Helpers on sequences                                                    *)

Min(a, b) == IF a <= b THEN a ELSE b

Range(s) == {s[i] : i \in 1..Len(s)}

\* Python's s[:n] for n >= 0
Take(s, n) == SubSeq(s, 1, Min(n, Len(s)))

RECURSIVE SeqsUpTo(_, _)
SeqsUpTo(S, n) ==
    IF n = 0 THEN {<<>>}
    ELSE LET shorter == SeqsUpTo(S, n - 1)
         IN shorter \cup {Append(s, x) : s \in {t \in shorter : Len(t) = n - 1}, x \in S}

-----------------------------------------------------------------------------
(* The remote archive                                                      *)

\* One record of the archive endpoint. kind "nondict" is an item that is not a
\* JSON object; canonical_url 0 is a missing or empty link; post_date 0 is a
\* missing or unparseable date string, any other value k is the ISO date of
\* instant k with the Z suffix.
Item(kind, id, dateOk) ==
    [kind |-> kind,
     canonical_url |-> IF kind = "ok" THEN id ELSE 0,
     post_date |-> IF dateOk /\ kind # "nondict" THEN id ELSE 0]

\* The instant datetime.now() returns: later than every publication date.
Now == MaxItems + MaxPosts + 2

\* The server's answer to offset/limit: the slice of the archive.
Page(archive, off) ==
    SubSeq(archive, off + 1, Min(off + API_LIMIT_PER_REQUEST, Len(archive)))

-----------------------------------------------------------------------------
(* models.py                                                               *)

NoPost == [link |-> 0, pub_date |-> [aware |-> FALSE, t |-> 0],
           repr |-> "none", content |-> ""]

\* Post._parse_date: the Z date parses to an offset-aware datetime; anything
\* else falls back to datetime.now(), which is offset-naive.
ParseDate(date_str) ==
    IF date_str # 0
    THEN [aware |-> TRUE, t |-> date_str]
    ELSE [aware |-> FALSE, t |-> Now]

\* Post.from_api_response: None for a non-dict item or an unusable link.
FromApiResponse(item) ==
    IF item.kind = "nondict" THEN NoPost
    ELSE IF item.canonical_url = 0 THEN NoPost
    ELSE [link |-> item.canonical_url,
          pub_date |-> ParseDate(item.post_date),
          repr |-> "object",
          content |-> ""]

-----------------------------------------------------------------------------
(* fetcher.py: fetch_archive_metadata                                      *)

\* What one page request can give: a body that is a list, a body that is an
\* object with a "posts" list, an object whose "posts" is not a list, any other
\* JSON value, or one of the four exceptions the loop catches.
OkOutcomes == {"list", "dict_posts"}
BadBodyOutcomes == {"posts_not_list", "other_json"}
ExceptionOutcomes == {"Timeout", "HTTPError", "JSONDecodeError", "ConnectionError"}
PageOutcomes == OkOutcomes \cup BadBodyOutcomes \cup ExceptionOutcomes

\* SubstackFetcher._parse_api_response on the body of a given shape
ParseApiResponse(shape, items) ==
    IF shape = "list" THEN items
    ELSE IF shape = "dict_posts" THEN items
    ELSE <<>>

\* The for loop over the items of one page: skips what from_api_response
\* rejects, appends the rest, and stops at once when the limit is reached.
RECURSIVE ForItems(_, _, _)
ForItems(acc, items, lim) ==
    IF items = <<>> THEN [posts |-> acc, hit |-> FALSE]
    ELSE LET post == FromApiResponse(Head(items))
         IN IF post = NoPost THEN ForItems(acc, Tail(items), lim)
            ELSE LET acc2 == Append(acc, post)
                 IN IF lim # 0 /\ Len(acc2) >= lim
                    THEN [posts |-> Take(acc2, lim), hit |-> TRUE]
                    ELSE ForItems(acc2, Tail(items), lim)

\* list.sort(key=pub_date) compares the keys: an offset-naive and an
\* offset-aware datetime do not compare (TypeError).
Comparable(ps) ==
    \A i, j \in 1..Len(ps) : ps[i].pub_date.aware = ps[j].pub_date.aware

RECURSIVE InsertByDate(_, _)
InsertByDate(sorted, p) ==
    IF sorted = <<>> THEN <<p>>
    ELSE LET n == Len(sorted)
         IN IF sorted[n].pub_date.t <= p.pub_date.t
            THEN Append(sorted, p)
            ELSE Append(InsertByDate(SubSeq(sorted, 1, n - 1), p), sorted[n])

\* posts.sort(key=lambda x: x.pub_date): stable, ascending
RECURSIVE SortByDate(_)
SortByDate(ps) ==
    IF ps = <<>> THEN <<>>
    ELSE LET n == Len(ps)
         IN InsertByDate(SortByDate(SubSeq(ps, 1, n - 1)), ps[n])

\* The call: posts = [], offset = 0, into the loop.
FetchEnter(lim) ==
    /\ limit' = lim
    /\ posts' = <<>>
    /\ offset' = 0
    /\ requests' = 0
    /\ failed' = "none"
    /\ fstate' = "loop"
    /\ result' = <<>>

\* break: leave the loop, sort, return (the sort raises on mixed datetimes).
FetchBreak(acc) ==
    /\ posts' = acc
    /\ IF Comparable(acc)
       THEN fstate' = "returned" /\ result' = SortByDate(acc)
       ELSE fstate' = "raised" /\ result' = <<>>

\* A loop that goes on after a short page and stops only at an empty one.
FetchPage_UntilEmpty(outcome) ==
    /\ fstate = "loop"
    /\ requests' = requests + 1
    /\ limit' = limit
    /\ IF outcome \in ExceptionOutcomes
       THEN /\ failed' = "exception"
            /\ offset' = offset
            /\ FetchBreak(posts)
       ELSE LET new_posts == ParseApiResponse(outcome, Page(remote, offset))
            IN IF new_posts = <<>>
               THEN /\ failed' = IF outcome \in BadBodyOutcomes THEN "bad_body" ELSE "none"
                    /\ offset' = offset
                    /\ FetchBreak(posts)
               ELSE LET acc == ForItems(posts, new_posts, limit)
                    IN /\ failed' = "none"
                       /\ IF acc.hit
                          THEN /\ posts' = acc.posts
                               /\ offset' = offset
                               /\ fstate' = "returned"
                               /\ result' = acc.posts
                          ELSE /\ offset' = offset + Len(new_posts)
                               /\ IF FALSE
                                  THEN FetchBreak(acc.posts)
                                  ELSE /\ posts' = acc.posts
                                       /\ fstate' = "loop"
                                       /\ result' = result

\* One iteration of the while loop: one page request and what follows it.
FetchPage(outcome) ==
    /\ fstate = "loop"
    /\ requests' = requests + 1
    /\ limit' = limit
    /\ IF outcome \in ExceptionOutcomes
       THEN /\ failed' = "exception"
            /\ offset' = offset
            /\ FetchBreak(posts)
       ELSE LET new_posts == ParseApiResponse(outcome, Page(remote, offset))
            IN IF new_posts = <<>>
               THEN /\ failed' = IF outcome \in BadBodyOutcomes THEN "bad_body" ELSE "none"
                    /\ offset' = offset
                    /\ FetchBreak(posts)
               ELSE LET acc == ForItems(posts, new_posts, limit)
                    IN /\ failed' = "none"
                       /\ IF acc.hit
                          THEN /\ posts' = acc.posts
                               /\ offset' = offset
                               /\ fstate' = "returned"
                               /\ result' = acc.posts
                          ELSE /\ offset' = offset + Len(new_posts)
                               /\ IF Len(new_posts) < API_LIMIT_PER_REQUEST
                                  THEN FetchBreak(acc.posts)
                                  ELSE /\ posts' = acc.posts
                                       /\ fstate' = "loop"
                                       /\ result' = result

-----------------------------------------------------------------------------
(* The values the variables of a component hold while it is not in use     *)

NoCall == [pc |-> "idle"]

ConcIdle ==
    /\ post_list = <<>>
    /\ futures = <<>>
    /\ completed = 0
    /\ workers = 0
    /\ conc_result = NoCall

CacheIdle ==
    /\ cache = <<>>
    /\ web = <<>>
    /\ net_requests = 0
    /\ last_fetch = NoCall

AuthIdle ==
    /\ fetcher = NoCall
    /\ auth = NoCall

ImageIdle ==
    /\ img = NoCall
    /\ images_dir = {}

TrackerIdle ==
    /\ tracker_file = NoCall
    /\ loaded = NoCall

ParserIdle ==
    /\ raw_html = NoCall
    /\ reparsed = NoCall

NetIdle == net = NoCall

PairIdle ==
    /\ output_dir = NoCall
    /\ last_run = NoCall

LateIdle == ParserIdle /\ NetIdle /\ PairIdle

ExtIdle ==
    /\ ConcIdle /\ CacheIdle /\ AuthIdle /\ ImageIdle /\ TrackerIdle /\ ParserIdle
    /\ NetIdle
    /\ PairIdle

-----------------------------------------------------------------------------
(* epub_tracker.py                                                         *)

NoFile == [exists |-> FALSE, post_links |-> <<>>]
NoEpub == [exists |-> FALSE, chapters |-> <<>>]

\* A tracker that takes the EPUB file alone for the pair.
TrackerExists_EpubOnly(e, l) == e.exists

\* EpubTracker.exists: both files are there
TrackerExists(e, l) == e.exists /\ l.exists

\* EpubTracker.load: the stored record, or the empty ledger for a missing file
TrackerLoad(l) ==
    IF ~l.exists THEN [post_links |-> <<>>] ELSE [post_links |-> l.post_links]

\* EpubTracker.save: writes the record; an IOError is printed and swallowed
TrackerSave(l, post_links, io_ok) ==
    IF io_ok THEN [exists |-> TRUE, post_links |-> post_links] ELSE l

\* A diff that filters nothing: every fetched post counts as new.
GetNewPosts_All(all_posts, l) == [raised |-> FALSE, posts |-> all_posts]

\* A diff that finds nothing new, whatever was fetched.
GetNewPosts_None(all_posts, l) == [raised |-> FALSE, posts |-> <<>>]

\* EpubTracker.get_new_posts: post['link'] subscripts every post of all_posts;
\* a Post object is not subscriptable (TypeError), a mapping is.
GetNewPosts(all_posts, l) ==
    LET existing_links == Range(TrackerLoad(l).post_links)
    IN IF \E i \in 1..Len(all_posts) : all_posts[i].repr = "object"
       THEN [raised |-> TRUE, posts |-> <<>>]
       ELSE [raised |-> FALSE,
             posts |-> SelectSeq(all_posts, LAMBDA post : post.link \notin existing_links)]

-----------------------------------------------------------------------------
(* compiler/formats/epub.py                                                *)

\* A compile that keeps the existing chapters and numbers the new ones from 1.
EpubCompile_Restart(e, ps, update_existing) ==
    LET existing_chapters == IF update_existing /\ e.exists THEN e.chapters ELSE <<>>
        new_chapters == [i \in 1..Len(ps) |-> [file_name |-> i, post |-> ps[i].link]]
    IN [exists |-> TRUE, chapters |-> existing_chapters \o new_chapters]

\* EPUBFormatter.compile: the chapters of the book it writes. file_name n is
\* chap_n.xhtml; post is the link of the post the chapter was built from.
EpubCompile(e, ps, update_existing) ==
    LET existing_chapters == IF update_existing /\ e.exists THEN e.chapters ELSE <<>>
        next_chapter_num == Len(existing_chapters) + 1
        new_chapters == [i \in 1..Len(ps) |->
                            [file_name |-> next_chapter_num + (i - 1),
                             post |-> ps[i].link]]
    IN [exists |-> TRUE, chapters |-> existing_chapters \o new_chapters]

-----------------------------------------------------------------------------
(* parser.py                                                               *)

\* parse_content: empty input gives the empty string, anything else the
\* serialised tree without the boilerplate elements
ParseContent(html_content) == IF html_content = "" THEN "" ELSE "cleaned"

-----------------------------------------------------------------------------
(* orchestrator.py: run_download                                           *)

Modes == {"Create New", "Update Existing EPUB"}
Formats == {"PDF", "EPUB", "JSON", "HTML", "TXT", "Markdown"}

IsUpdate == mode = "Update Existing EPUB"

Links(ps) == [i \in 1..Len(ps) |-> ps[i].link]

\* A save that keeps the loaded links in create mode too.
AllLinks_KeepOld(update, l, cleaned) == TrackerLoad(l).post_links \o Links(cleaned)

\* The links tracker.save is given: the loaded ones followed by the compiled
\* ones in update mode, the compiled ones alone otherwise.
AllLinks(update, l, cleaned) ==
    IF update THEN TrackerLoad(l).post_links \o Links(cleaned) ELSE Links(cleaned)

\* The statuses run_download returns in an OrchestratorResult, and the
\* exceptions that leave it (the sort's or the diff's TypeError, and whatever
\* a compiler raises).
Statuses == {"ok", "no_posts", "no_new_posts", "missing_epub"}
Propagated == {"TypeError", "CompileError"}

\* A run_download that catches what is raised and returns an error outcome.
End_AsError(s) ==
    /\ status' = IF s \in Propagated THEN "error" ELSE s
    /\ pc' = "end"

\* return OrchestratorResult(status=...), or an exception leaving run_download
End(s) ==
    /\ status' = s
    /\ pc' = "end"

\* Lines 53-71 and 85-87: the fetcher is built, title and author are fetched,
\* update mode returns missing_epub unless the EPUB and its tracker exist,
\* and fetch_archive_metadata is entered (limit=None in update mode).
StartRun(m, lim, f) ==
    /\ pc \in {"idle", "end"}
    /\ runs < MaxRuns
    /\ runs' = runs + 1
    /\ mode' = m
    /\ format_option' = f
    /\ epub0' = epub
    /\ ledger0' = ledger
    /\ metadata_list' = <<>>
    /\ cleaned_posts' = <<>>
    /\ IF m = "Update Existing EPUB" /\ ~TrackerExists(epub, ledger)
       THEN /\ End("missing_epub")
            /\ calls' = {"get_newsletter_title"}
            /\ limit' = 0
            /\ posts' = <<>>
            /\ offset' = 0
            /\ requests' = 0
            /\ failed' = "none"
            /\ fstate' = "idle"
            /\ result' = <<>>
       ELSE /\ FetchEnter(IF m = "Update Existing EPUB" THEN 0 ELSE lim)
            /\ calls' = {"get_newsletter_title", "fetch_archive_metadata"}
            /\ status' = "running"
            /\ pc' = "fetch_metadata"
    /\ output_file' = "none"
    /\ UNCHANGED <<extVars, remote, epub, ledger>>

\* One page request of the fetch the run is in.
RunFetchPage ==
    /\ pc = "fetch_metadata"
    /\ \E outcome \in PageOutcomes : FetchPage(outcome)
    /\ UNCHANGED <<extVars, remote, fileVars, pc, mode, format_option, metadata_list,
                   cleaned_posts, status, calls, epub0, ledger0, runs>>

\* Lines 74-95: the fetch is back; update mode diffs against the ledger; an
\* empty list ends the run with no_new_posts or no_posts.
AfterFetch ==
    /\ pc = "fetch_metadata"
    /\ fstate \in {"returned", "raised"}
    /\ IF fstate = "raised"
       THEN End("TypeError") /\ metadata_list' = <<>>
       ELSE IF IsUpdate
       THEN LET diff == GetNewPosts(result, ledger)
            IN /\ metadata_list' = diff.posts
               /\ IF diff.raised THEN End("TypeError")
                  ELSE IF diff.posts = <<>> THEN End("no_new_posts")
                  ELSE status' = status /\ pc' = "content"
       ELSE /\ metadata_list' = result
            /\ IF result = <<>> THEN End("no_posts")
               ELSE status' = status /\ pc' = "content"
    /\ UNCHANGED <<extVars, remote, fileVars, mode, format_option, fetchVars,
                   cleaned_posts, calls, epub0, ledger0, runs>>

\* Lines 101-105: one turn of the content loop; a failed fetch gives "".
FetchContent(ok) ==
    /\ pc = "content"
    /\ Len(cleaned_posts) < Len(metadata_list)
    /\ LET meta == metadata_list[Len(cleaned_posts) + 1]
           content == IF ok THEN "html" ELSE ""
       IN cleaned_posts' = Append(cleaned_posts,
                                  [meta EXCEPT !.content = ParseContent(content)])
    /\ calls' = calls \cup {"fetch_post_content"}
    /\ UNCHANGED <<extVars, remote, fileVars, pc, mode, format_option, fetchVars,
                   metadata_list, status, epub0, ledger0, runs>>

\* Lines 107-126 and 135-147: the compile of the chosen path. The EPUB path
\* goes on to the tracker; the others return ok. A compile that raises
\* leaves run_download with the exception.
Compile(ok) ==
    /\ pc = "content"
    /\ Len(cleaned_posts) = Len(metadata_list)
    /\ IF IsUpdate \/ format_option = "EPUB"
       THEN /\ calls' = calls \cup {"compile_to_epub"}
            /\ output_file' = output_file
            /\ IF ok
               THEN /\ epub' = EpubCompile(epub, cleaned_posts, IsUpdate)
                    /\ status' = status
                    /\ pc' = "save_ledger"
               ELSE epub' = epub /\ End("CompileError")
       ELSE /\ calls' = calls \cup {"compile_other"}
            /\ epub' = epub
            /\ IF ok
               THEN output_file' = format_option /\ End("ok")
               ELSE output_file' = output_file /\ End("CompileError")
    /\ UNCHANGED <<extVars, remote, ledger, mode, format_option, fetchVars, metadata_list,
                   cleaned_posts, epub0, ledger0, runs>>

\* Lines 128-134 and 149-158: the tracker is saved and the run returns ok.
SaveLedger(io_ok) ==
    /\ pc = "save_ledger"
    /\ ledger' = TrackerSave(ledger, AllLinks(IsUpdate, ledger, cleaned_posts), io_ok)
    /\ calls' = calls \cup {IF io_ok THEN "tracker.save" ELSE "tracker.save:IOError"}
    /\ End("ok")
    /\ UNCHANGED <<extVars, remote, epub, output_file, mode, format_option, fetchVars,
                   metadata_list, cleaned_posts, epub0, ledger0, runs>>

\* The process is interrupted in the middle of a run.
Interrupt ==
    /\ pc \in {"fetch_metadata", "content", "save_ledger"}
    /\ End("interrupted")
    /\ UNCHANGED <<extVars, remote, fileVars, mode, format_option, fetchVars, metadata_list,
                   cleaned_posts, calls, epub0, ledger0, runs>>

\* The newsletter publishes a post between two runs: the newest item of the
\* archive, with a parseable date or without one. The last run's result is
\* history from here on (pc is idle again).
Publish(dateOk) ==
    /\ pc \in {"idle", "end"}
    /\ Len(remote) < MaxPosts
    /\ remote' = <<Item("ok", Len(remote) + 1, dateOk)>> \o remote
    /\ pc' = "idle"
    /\ UNCHANGED <<extVars, fileVars, mode, format_option, fetchVars, metadata_list,
                   cleaned_posts, status, calls, epub0, ledger0, runs>>

\* The user removes the EPUB file between two runs.
RemoveEpub ==
    /\ pc \in {"idle", "end"}
    /\ epub.exists
    /\ epub' = NoEpub
    /\ pc' = "idle"
    /\ UNCHANGED <<extVars, remote, ledger, output_file, mode, format_option, fetchVars,
                   metadata_list, cleaned_posts, status, calls, epub0, ledger0, runs>>

Init ==
    /\ remote = <<>>
    /\ epub = NoEpub
    /\ ledger = NoFile
    /\ output_file = "none"
    /\ pc = "idle"
    /\ mode = "Create New"
    /\ format_option = "EPUB"
    /\ limit = 0
    /\ posts = <<>>
    /\ offset = 0
    /\ requests = 0
    /\ failed = "none"
    /\ fstate = "idle"
    /\ result = <<>>
    /\ metadata_list = <<>>
    /\ cleaned_posts = <<>>
    /\ status = "none"
    /\ calls = {}
    /\ epub0 = NoEpub
    /\ ledger0 = NoFile
    /\ runs = 0
    /\ ExtIdle

Next ==
    \/ \E m \in Modes, lim \in 0..MaxLimit, f \in Formats : StartRun(m, lim, f)
    \/ RunFetchPage
    \/ AfterFetch
    \/ \E ok \in BOOLEAN : FetchContent(ok)
    \/ \E ok \in BOOLEAN : Compile(ok)
    \/ \E io_ok \in BOOLEAN : SaveLedger(io_ok)
    \/ Interrupt
    \/ \E dateOk \in BOOLEAN : Publish(dateOk)

Spec == Init /\ [][Next]_vars

NextEnv == Next \/ RemoveEpub

SpecEnv == Init /\ [][NextEnv]_vars

-----------------------------------------------------------------------------
(* SpecFetch: one fetch_archive_metadata call                              *)

\* The archives of the fetch: n items with ids n..1, newest first, and at most
\* one run of deviating items (not objects, without a link, or without a
\* parseable date) that starts anywhere and covers one item or a full page.
Deviations(n) ==
    {[kind |-> "none", from |-> 0, len |-> 0]} \cup
    [kind : {"nondict", "nolink", "baddate"}, from : 1..n,
     len : {1, API_LIMIT_PER_REQUEST}]

MkArchive(n, dev) ==
    [i \in 1..n |->
        LET id == n - i + 1
            inDev == dev.kind # "none" /\ i >= dev.from /\ i < dev.from + dev.len
        IN IF inDev /\ dev.kind = "nondict" THEN Item("nondict", id, FALSE)
           ELSE IF inDev /\ dev.kind = "nolink" THEN Item("nolink", id, TRUE)
           ELSE Item("ok", id, ~(inDev /\ dev.kind = "baddate"))]

FetchArchives == UNION {{MkArchive(n, dev) : dev \in Deviations(n)} : n \in 0..MaxItems}

InitFetch ==
    /\ remote \in FetchArchives
    /\ epub = NoEpub
    /\ ledger = NoFile
    /\ output_file = "none"
    /\ pc = "fetch_call"
    /\ mode = "Create New"
    /\ format_option = "EPUB"
    /\ limit = 0
    /\ posts = <<>>
    /\ offset = 0
    /\ requests = 0
    /\ failed = "none"
    /\ fstate = "idle"
    /\ result = <<>>
    /\ metadata_list = <<>>
    /\ cleaned_posts = <<>>
    /\ status = "none"
    /\ calls = {}
    /\ epub0 = NoEpub
    /\ ledger0 = NoFile
    /\ runs = 0
    /\ ExtIdle

nonFetchVars == <<remote, epub, ledger, output_file, mode, format_option,
                  metadata_list, cleaned_posts, status, calls, epub0, ledger0, runs>>

\* fetch_archive_metadata(limit=lim) is called
FetchCall(lim) ==
    /\ pc = "fetch_call"
    /\ FetchEnter(lim)
    /\ pc' = "fetch_loop"
    /\ UNCHANGED <<extVars, nonFetchVars>>

\* one page request of that call
FetchStep(outcome) ==
    /\ pc = "fetch_loop"
    /\ FetchPage(outcome)
    /\ UNCHANGED <<extVars, pc, nonFetchVars>>

NextFetch ==
    \/ \E lim \in 0..MaxFetchLimit : FetchCall(lim)
    \/ \E outcome \in PageOutcomes : FetchStep(outcome)

SpecFetch == InitFetch /\ [][NextFetch]_vars

-----------------------------------------------------------------------------
(* SpecDiff: one EpubTracker.get_new_posts call                            *)

\* Posts as the callers hand them over: mappings with a 'link' key (repr
\* "dict") and Post objects with a link attribute (repr "object").
DiffPosts ==
    {[link |-> k, pub_date |-> ParseDate(k), repr |-> r, content |-> ""] :
        k \in 1..MaxLen, r \in {"dict", "object"}}

DiffLedgers ==
    {NoFile} \cup {[exists |-> TRUE, post_links |-> s] : s \in SeqsUpTo(1..MaxLen, 2)}

InitDiff ==
    /\ remote = <<>>
    /\ epub = NoEpub
    /\ ledger \in DiffLedgers
    /\ output_file = "none"
    /\ pc = "diff_call"
    /\ mode = "Update Existing EPUB"
    /\ format_option = "EPUB"
    /\ limit = 0
    /\ posts = <<>>
    /\ offset = 0
    /\ requests = 0
    /\ failed = "none"
    /\ fstate = "idle"
    /\ result \in SeqsUpTo(DiffPosts, MaxLen)
    /\ metadata_list = <<>>
    /\ cleaned_posts = <<>>
    /\ status = "none"
    /\ calls = {}
    /\ epub0 = NoEpub
    /\ ledger0 = NoFile
    /\ runs = 0
    /\ ExtIdle

\* tracker.get_new_posts(all_posts) with all_posts = result
DiffCall ==
    /\ pc = "diff_call"
    /\ LET diff == GetNewPosts(result, ledger)
       IN /\ metadata_list' = diff.posts
          /\ status' = IF diff.raised THEN "TypeError" ELSE "returned"
    /\ pc' = "diff_done"
    /\ UNCHANGED <<extVars, remote, fileVars, mode, format_option, fetchVars,
                   cleaned_posts, calls, epub0, ledger0, runs>>

NextDiff == DiffCall

SpecDiff == InitDiff /\ [][NextDiff]_vars

\* run_download and its fetch are not in use
CoreIdle ==
    /\ remote = <<>>
    /\ epub = NoEpub
    /\ ledger = NoFile
    /\ output_file = "none"
    /\ mode = "Create New"
    /\ format_option = "EPUB"
    /\ limit = 0
    /\ posts = <<>>
    /\ offset = 0
    /\ requests = 0
    /\ failed = "none"
    /\ fstate = "idle"
    /\ result = <<>>
    /\ metadata_list = <<>>
    /\ cleaned_posts = <<>>
    /\ status = "none"
    /\ calls = {}
    /\ epub0 = NoEpub
    /\ ledger0 = NoFile
    /\ runs = 0

-----------------------------------------------------------------------------
(* SpecConc: one fetch_all_content_concurrent call (fetcher.py)            *)

\* What the content region of the page of a post serialises to.
Html(link) == <<"html1", "html2">>[link]

\* The posts the call is given: the metadata fetch's result, ascending by
\* date; two items of the archive may carry the same link.
ConcPosts(n) ==
    {[i \in 1..n |-> [link |-> f[i], pub_date |-> ParseDate(i),
                      repr |-> "object", content |-> ""]] : f \in [1..n -> 1..2]}

\* How one task ends: fetch_post_content returns the content, returns "" for a
\* failure it caught, or the future carries an exception.
TaskOutcomes == {"ok", "empty", "raised"}

\* A list that hands the posts back in the order their futures were handled.
ConcReturn_ByCompletion(pl, fs) ==
    [k \in 1..Len(pl) |-> pl[CHOOSE i \in 1..Len(fs) : fs[i].at = k]]

\* return post_list: the list built from the input, mutated in place
ConcReturn(pl, fs) == pl

\* A lookup that takes the posts in the order the futures complete.
FutureToPost_ByCompletion(i, done) == done + 1

\* future_to_post[future]: the post the future was submitted for
FutureToPost(i, done) == i

Running(fs) == {i \in 1..Len(fs) : fs[i].state = "running"}
Pending(fs) == {i \in 1..Len(fs) : fs[i].state = "pending"}

\* Lines 307-320: an empty input is returned at once; otherwise one task per
\* post is submitted to a pool of max_workers (or max_concurrent) threads.
ConcCall(max_workers) ==
    /\ pc = "conc_call"
    /\ IF Len(post_list) = 0
       THEN /\ conc_result' = [pc |-> "returned", posts |-> post_list]
            /\ pc' = "conc_done"
            /\ UNCHANGED <<futures, workers, lateVars>>
       ELSE /\ workers' = IF max_workers # 0 THEN max_workers ELSE MAX_CONCURRENT_FETCHES
            /\ futures' = [i \in 1..Len(post_list) |->
                              [state |-> "pending", link |-> post_list[i].link,
                               result |-> "", exc |-> FALSE, at |-> 0, wrote |-> 0]]
            /\ pc' = "conc_loop"
            /\ UNCHANGED conc_result
    /\ UNCHANGED <<post_list, completed, coreVars, cacheVars, authVars, imageVars,
                   trackerVars, lateVars>>

\* A free thread of the pool takes the next task of the queue.
WorkerStart(i) ==
    /\ pc = "conc_loop"
    /\ i \in Pending(futures)
    /\ \A j \in Pending(futures) : i <= j
    /\ Cardinality(Running(futures)) < workers
    /\ futures' = [futures EXCEPT ![i].state = "running"]
    /\ UNCHANGED <<pc, post_list, completed, workers, conc_result, coreVars,
                   cacheVars, authVars, imageVars, trackerVars, lateVars>>

\* fetch_post_content(post.link) ends in a worker thread.
WorkerFinish(i, outcome) ==
    /\ pc = "conc_loop"
    /\ i \in Running(futures)
    /\ futures' = [futures EXCEPT
                      ![i].state = "finished",
                      ![i].result = IF outcome = "ok" THEN Html(futures[i].link) ELSE "",
                      ![i].exc = (outcome = "raised")]
    /\ UNCHANGED <<pc, post_list, completed, workers, conc_result, coreVars,
                   cacheVars, authVars, imageVars, trackerVars, lateVars>>

\* Lines 322-335: as_completed yields a finished future; its result, or ""
\* if it raises, becomes the content of the future's post.
Consume(i) ==
    /\ pc = "conc_loop"
    /\ i \in 1..Len(futures)
    /\ futures[i].state = "finished"
    /\ LET post == FutureToPost(i, completed)
       IN /\ post_list' = [post_list EXCEPT
                              ![post].content = IF futures[i].exc THEN "" ELSE futures[i].result]
          /\ futures' = [futures EXCEPT ![i].state = "yielded",
                                        ![i].at = completed + 1,
                                        ![i].wrote = post]
    /\ completed' = completed + 1
    /\ UNCHANGED <<pc, workers, conc_result, coreVars, cacheVars, authVars,
                   imageVars, trackerVars, lateVars>>

\* Line 337: every future has been yielded, the pool is shut down.
ConcDone ==
    /\ pc = "conc_loop"
    /\ \A i \in 1..Len(futures) : futures[i].state = "yielded"
    /\ conc_result' = [pc |-> "returned", posts |-> ConcReturn(post_list, futures)]
    /\ pc' = "conc_done"
    /\ UNCHANGED <<post_list, futures, completed, workers, coreVars, cacheVars,
                   authVars, imageVars, trackerVars, lateVars>>

InitConc ==
    /\ pc = "conc_call"
    /\ CoreIdle
    /\ post_list \in UNION {ConcPosts(n) : n \in 0..MaxConcPosts}
    /\ futures = <<>>
    /\ completed = 0
    /\ workers = 0
    /\ conc_result = NoCall
    /\ CacheIdle /\ AuthIdle /\ ImageIdle /\ TrackerIdle /\ LateIdle

NextConc ==
    \/ \E max_workers \in 0..MaxWorkers : ConcCall(max_workers)
    \/ \E i \in 1..MaxConcPosts : WorkerStart(i)
    \/ \E i \in 1..MaxConcPosts, outcome \in TaskOutcomes : WorkerFinish(i, outcome)
    \/ \E i \in 1..MaxConcPosts : Consume(i)
    \/ ConcDone

SpecConc == InitConc /\ [][NextConc]_vars

-----------------------------------------------------------------------------
(* SpecCache: fetch_post_content calls over a shared cache directory       *)

Urls == 1..MaxUrls

\* What the server holds for a URL: one of two versions of the page, a page
\* without any content element, or nothing it can deliver (timeout, HTTP
\* error, connection failure).
WebStates == {"v1", "v2", "nocontent", "down"}

\* session.get, raise_for_status and _extract_content on what the server
\* holds: the serialised content element, or "" (nothing found, or the
\* exception handlers of fetch_post_content).
Body(url, w) ==
    IF w = "v1" THEN <<"url1 v1", "url2 v1", "url3 v1">>[url]
    ELSE IF w = "v2" THEN <<"url1 v2", "url2 v2", "url3 v2">>[url]
    ELSE ""

\* utils.get_cache_key: the MD5 digest of the URL, one key per URL
GetCacheKey(url) == <<"md5", url>>

CacheKeys == {GetCacheKey(u) : u \in Urls}

NoEntry == [kind |-> "absent", content |-> ""]
CorruptEntry == [kind |-> "corrupt", content |-> ""]

\* A cache lookup that never finds anything.
GetFromCache_Miss(c, enable_cache, url) == [hit |-> FALSE, content |-> ""]

\* _get_from_cache: None without a cache directory, for a missing file and
\* for a file pickle cannot load; the pickled string otherwise.
GetFromCache(c, enable_cache, url) ==
    LET cache_file == c[GetCacheKey(url)]
    IN IF ~enable_cache THEN [hit |-> FALSE, content |-> ""]
       ELSE IF cache_file.kind = "pickle"
       THEN [hit |-> TRUE, content |-> cache_file.content]
       ELSE [hit |-> FALSE, content |-> ""]

\* How the write of a cache file goes: written, not even opened, or opened
\* (and truncated) with the dump failing; the exception is swallowed.
SaveOutcomes == {"ok", "open_failed", "dump_failed"}

\* A cache that stores whatever the fetch gave, the empty string included.
ShouldCache_Always(enable_cache, content) == enable_cache

\* Line 264: if self.enable_cache and content
ShouldCache(enable_cache, content) == enable_cache /\ content # ""

\* _save_to_cache
SaveToCache(c, url, content, outcome) ==
    IF outcome = "ok"
    THEN [c EXCEPT ![GetCacheKey(url)] = [kind |-> "pickle", content |-> content]]
    ELSE IF outcome = "dump_failed"
    THEN [c EXCEPT ![GetCacheKey(url)] = CorruptEntry]
    ELSE c

\* fetch_post_content(url) of a fetcher built with enable_cache. The record
\* left in last_fetch holds what the call returned, what a fetcher without
\* cache returns from the same server state, and the entry the call found.
FetchPostContent(url, enable_cache, outcome) ==
    /\ pc = "cache"
    /\ net_requests < MaxRequests
    /\ LET cached == GetFromCache(cache, enable_cache, url)
           content == Body(url, web[url])
       IN /\ IF cached.hit
             THEN UNCHANGED <<cache, net_requests, lateVars>>
             ELSE /\ net_requests' = net_requests + 1
                  /\ cache' = IF ShouldCache(enable_cache, content)
                              THEN SaveToCache(cache, url, content, outcome)
                              ELSE cache
          /\ last_fetch' = [pc |-> "returned",
                            url |-> url,
                            enable_cache |-> enable_cache,
                            value |-> IF cached.hit THEN cached.content ELSE content,
                            uncached |-> content,
                            found |-> cache[GetCacheKey(url)],
                            requested |-> ~cached.hit,
                            after_clear |-> last_fetch.pc = "cleared"]
    /\ UNCHANGED <<pc, web, coreVars, concVars, authVars, imageVars, trackerVars, lateVars>>

\* clear_cache of a fetcher built with enable_cache: every *.pkl file goes
ClearCache(enable_cache) ==
    /\ pc = "cache"
    /\ IF enable_cache
       THEN /\ cache' = [k \in CacheKeys |-> NoEntry]
            /\ last_fetch' = [pc |-> "cleared"]
       ELSE UNCHANGED <<cache, last_fetch, lateVars>>
    /\ UNCHANGED <<pc, web, net_requests, coreVars, concVars, authVars, imageVars,
                   trackerVars, lateVars>>

\* The server's content for a URL changes, disappears or comes back.
WebChange(url, w) ==
    /\ pc = "cache"
    /\ web[url] # w
    /\ web' = [web EXCEPT ![url] = w]
    /\ UNCHANGED <<pc, cache, net_requests, last_fetch, coreVars, concVars,
                   authVars, imageVars, trackerVars, lateVars>>

InitCache ==
    /\ pc = "cache"
    /\ CoreIdle
    /\ cache = [k \in CacheKeys |-> NoEntry]
    /\ web \in [Urls -> WebStates]
    /\ net_requests = 0
    /\ last_fetch = NoCall
    /\ ConcIdle /\ AuthIdle /\ ImageIdle /\ TrackerIdle /\ LateIdle

NextCache ==
    \/ \E url \in Urls, enable_cache \in BOOLEAN, outcome \in SaveOutcomes :
          FetchPostContent(url, enable_cache, outcome)
    \/ \E enable_cache \in BOOLEAN : ClearCache(enable_cache)
    \/ \E url \in Urls, w \in WebStates : WebChange(url, w)

SpecCache == InitCache /\ [][NextCache]_vars

-----------------------------------------------------------------------------
(* SpecAuth: the SubstackFetcher constructor and verify_auth               *)

\* The url arguments of the model: None, a number, and strings.
UrlTexts ==
    {"", "example.substack.com", "//example.substack.com", "https://",
     "http:example.substack.com", "https://example.substack.com",
     "https://example.substack.com/", "http://example.substack.com",
     "HTTP://example.substack.com", "ftp://example.substack.com"}

UrlValues ==
    {[type |-> "NoneType", text |-> ""], [type |-> "int", text |-> "123"]}
    \cup {[type |-> "str", text |-> t] : t \in UrlTexts}

\* The cookie arguments: None, the empty string, a bare session id and a
\* full cookie string.
CookieValues ==
    {[type |-> "NoneType", text |-> ""], [type |-> "str", text |-> ""],
     [type |-> "str", text |-> "abc"], [type |-> "str", text |-> "substack.sid=abc"]}

\* Python's truth value of the argument
Truthy(v) ==
    IF v.type = "NoneType" THEN FALSE
    ELSE IF v.type = "int" THEN v.text # "0"
    ELSE v.text # ""

\* urllib.parse.urlparse: the scheme (lower-cased) and the network location
UrlParse(text) ==
    CASE text = "https://example.substack.com" ->
            [scheme |-> "https", netloc |-> "example.substack.com"]
      [] text = "https://example.substack.com/" ->
            [scheme |-> "https", netloc |-> "example.substack.com"]
      [] text = "http://example.substack.com" ->
            [scheme |-> "http", netloc |-> "example.substack.com"]
      [] text = "HTTP://example.substack.com" ->
            [scheme |-> "http", netloc |-> "example.substack.com"]
      [] text = "ftp://example.substack.com" ->
            [scheme |-> "ftp", netloc |-> "example.substack.com"]
      [] text = "//example.substack.com" ->
            [scheme |-> "", netloc |-> "example.substack.com"]
      [] text = "https://" -> [scheme |-> "https", netloc |-> ""]
      [] text = "http:example.substack.com" -> [scheme |-> "http", netloc |-> ""]
      [] OTHER -> [scheme |-> "", netloc |-> ""]

\* A constructor that lets a cookie go with an HTTP URL.
InsecureCredential_Allowed(parsed, cookie) == FALSE

\* Lines 52-53: the scheme is http and a cookie is given
InsecureCredential(parsed, cookie) == parsed.scheme = "http" /\ Truthy(cookie)

\* Lines 79-83: the Cookie header, "" standing for no header
CookieHeader(cookie) ==
    IF ~Truthy(cookie) THEN ""
    ELSE IF cookie.text = "substack.sid=abc" THEN cookie.text
    ELSE "substack.sid=abc"

\* Lines 45-87: what SubstackFetcher(url, cookie) gives. The checks come
\* first; the headers and then the session exist only when they pass.
NewFetcher(url, cookie) ==
    IF ~Truthy(url) \/ url.type # "str"
    THEN [pc |-> "raised", error |-> "ValueError", session |-> FALSE, sent |-> {}]
    ELSE LET parsed == UrlParse(url.text)
         IN IF parsed.scheme = "" \/ parsed.netloc = ""
            THEN [pc |-> "raised", error |-> "ValueError", session |-> FALSE, sent |-> {}]
            ELSE IF InsecureCredential(parsed, cookie)
            THEN [pc |-> "raised", error |-> "ValueError", session |-> FALSE, sent |-> {}]
            ELSE [pc |-> "built", error |-> "", session |-> TRUE, sent |-> {},
                  scheme |-> parsed.scheme, cookie_header |-> CookieHeader(cookie)]

\* SubstackFetcher(url, cookie=cookie). The arguments stay in auth for the
\* record.
Construct(url, cookie) ==
    /\ pc = "auth"
    /\ fetcher.pc = "idle"
    /\ fetcher' = NewFetcher(url, cookie)
    /\ auth' = [pc |-> "constructed", url |-> url, cookie |-> cookie]
    /\ UNCHANGED <<pc, coreVars, concVars, cacheVars, imageVars, trackerVars, lateVars>>

\* get_newsletter_title: a GET of the base URL with the fetcher's headers
GetNewsletterTitle ==
    /\ pc = "auth"
    /\ fetcher.pc = "built"
    /\ fetcher' = [fetcher EXCEPT !.sent = @ \cup
                      {[to |-> "base", scheme |-> fetcher.scheme,
                        cookie |-> fetcher.cookie_header]}]
    /\ UNCHANGED <<pc, auth, coreVars, concVars, cacheVars, imageVars, trackerVars, lateVars>>

\* How the probe request ends: a final status code, or an exception of the
\* requests library.
ProbeOutcomes == {"200", "204", "401", "403", "500", "Timeout", "ConnectionError"}

\* A probe that takes every answer for a valid session.
AuthOk_AnyAnswer(probe) == probe \notin {"Timeout", "ConnectionError"}

\* Line 395: response.status_code == 200
AuthOk(probe) == probe = "200"

\* verify_auth: False at once without a Cookie header; otherwise one GET of
\* the subscriptions endpoint over HTTPS.
VerifyAuth(probe) ==
    /\ pc = "auth"
    /\ fetcher.pc = "built"
    /\ auth.pc = "constructed"
    /\ IF fetcher.cookie_header = ""
       THEN /\ auth' = [auth EXCEPT !.pc = "returned"] @@
                       [value |-> FALSE, requested |-> FALSE, probe |-> "none"]
            /\ fetcher' = fetcher
       ELSE /\ auth' = [auth EXCEPT !.pc = "returned"] @@
                       [value |-> AuthOk(probe), requested |-> TRUE, probe |-> probe]
            /\ fetcher' = [fetcher EXCEPT !.sent = @ \cup
                              {[to |-> "probe", scheme |-> "https",
                                cookie |-> fetcher.cookie_header]}]
    /\ UNCHANGED <<pc, coreVars, concVars, cacheVars, imageVars, trackerVars, lateVars>>

InitAuth ==
    /\ pc = "auth"
    /\ CoreIdle
    /\ fetcher = NoCall
    /\ auth = NoCall
    /\ ConcIdle /\ CacheIdle /\ ImageIdle /\ TrackerIdle /\ LateIdle

NextAuth ==
    \/ \E url \in UrlValues, cookie \in CookieValues : Construct(url, cookie)
    \/ GetNewsletterTitle
    \/ \E probe \in ProbeOutcomes : VerifyAuth(probe)

SpecAuth == InitAuth /\ [][NextAuth]_vars

-----------------------------------------------------------------------------
(* SpecImage: one MediaProcessor.download_image call (compiler/media.py),  *)
(* into a directory that is empty or holds the file of an earlier download *)

\* The Content-Length header of the response: absent, not a number, or a
\* number (which the body need not respect).
ContentLengths ==
    {[kind |-> "absent", n |-> 0], [kind |-> "invalid", n |-> 0]} \cup
    {[kind |-> "number", n |-> k] :
        k \in {IMAGE_CHUNK_SIZE, MAX_IMAGE_SIZE, MAX_IMAGE_SIZE + 1}}

\* Lines 37-49: the declared size is a number above the limit
DeclaredTooLarge(content_length) ==
    content_length.kind = "number" /\ content_length.n > MAX_IMAGE_SIZE

\* Line 78: the running total is above the limit
OverLimit(bytes_written) == bytes_written > MAX_IMAGE_SIZE

\* the names of the files of the directory
FileNames(dir) == {f.name : f \in dir}

\* uuid.uuid4(): a name no file of the directory has
FreshName(dir) == CHOOSE n \in 1..(Cardinality(dir) + 1) : n \notin FileNames(dir)

\* An exception handler that leaves the file where it is.
RemovePartial_Keep(dir, filepath) == dir

\* if filepath and os.path.exists(filepath): os.remove(filepath)
RemovePartial(dir, filepath) == {f \in dir : f.name # filepath}

\* the file at filepath grows by the chunk written
WriteChunk(dir, filepath, n) ==
    {IF f.name = filepath THEN [f EXCEPT !.size = @ + n] ELSE f : f \in dir}

\* return None, None from an exception handler (or from the pre-check)
ImgFail(cause) ==
    /\ img' = [img EXCEPT !.pc = "returned", !.value = "none", !.cause = cause]
    /\ images_dir' = RemovePartial(images_dir, img.filepath)

\* Lines 28-73: the request, the pre-check on the declared length, the
\* generated name and the open of the file. request is how requests.get and
\* raise_for_status end; open_ok is whether open(filepath, 'wb') succeeds.
ImgStart(request, content_length, open_ok) ==
    /\ pc = "image"
    /\ img.pc = "idle"
    /\ LET start == [pc |-> "request", filepath |-> 0, bytes_written |-> 0,
                     content_length |-> content_length, value |-> "none",
                     cause |-> "none", dir0 |-> images_dir, last |-> FALSE]
       IN IF request # "ok"
          THEN /\ img' = [start EXCEPT !.pc = "returned", !.cause = request,
                                       !.content_length = [kind |-> "absent", n |-> 0]]
               /\ images_dir' = images_dir
          ELSE IF DeclaredTooLarge(content_length)
          THEN /\ img' = [start EXCEPT !.pc = "returned", !.cause = "content_length"]
               /\ images_dir' = images_dir
          ELSE LET filepath == FreshName(images_dir)
               IN IF open_ok
                  THEN /\ img' = [start EXCEPT !.pc = "stream", !.filepath = filepath]
                       /\ images_dir' = images_dir \cup {[name |-> filepath, size |-> 0]}
                  ELSE /\ img' = [start EXCEPT !.pc = "returned", !.filepath = filepath,
                                               !.cause = "IOError"]
                       /\ images_dir' = RemovePartial(images_dir, filepath)
    /\ UNCHANGED <<pc, coreVars, concVars, cacheVars, authVars, trackerVars, lateVars>>

\* Lines 75-85: one chunk of iter_content. An empty chunk is skipped; a chunk
\* that takes the total over the limit raises ValueError; the write of the
\* chunk can fail. A chunk shorter than the chunk size is the last one.
ImgChunk(n, write_ok) ==
    /\ pc = "image"
    /\ img.pc = "stream"
    /\ ~img.last
    /\ IF n = 0 THEN UNCHANGED <<img, images_dir, lateVars>>
       ELSE IF OverLimit(img.bytes_written + n)
       THEN ImgFail("midstream")
       ELSE IF ~write_ok
       THEN ImgFail("IOError")
       ELSE /\ img' = [img EXCEPT !.bytes_written = @ + n,
                                  !.last = (n < IMAGE_CHUNK_SIZE)]
            /\ images_dir' = WriteChunk(images_dir, img.filepath, n)
    /\ UNCHANGED <<pc, coreVars, concVars, cacheVars, authVars, trackerVars, lateVars>>

\* The stream breaks: a read timeout or a transport error of iter_content.
ImgStreamError(exc) ==
    /\ pc = "image"
    /\ img.pc = "stream"
    /\ ImgFail(exc)
    /\ UNCHANGED <<pc, coreVars, concVars, cacheVars, authVars, trackerVars, lateVars>>

\* Line 87: the body is over, the file is closed and the pair is returned; a
\* close that cannot flush raises IOError.
ImgEnd(close_ok) ==
    /\ pc = "image"
    /\ img.pc = "stream"
    /\ IF close_ok
       THEN /\ img' = [img EXCEPT !.pc = "returned", !.value = "path"]
            /\ images_dir' = images_dir
       ELSE ImgFail("IOError")
    /\ UNCHANGED <<pc, coreVars, concVars, cacheVars, authVars, trackerVars, lateVars>>

RequestOutcomes == {"ok", "Timeout", "ConnectionError", "HTTPError"}

InitImage ==
    /\ pc = "image"
    /\ CoreIdle
    /\ img = NoCall
    /\ images_dir \in {{}, {[name |-> 1, size |-> IMAGE_CHUNK_SIZE]}}
    /\ ConcIdle /\ CacheIdle /\ AuthIdle /\ TrackerIdle /\ LateIdle

NextImage ==
    \/ \E request \in RequestOutcomes, content_length \in ContentLengths,
          open_ok \in BOOLEAN : ImgStart(request, content_length, open_ok)
    \/ \E n \in {0, 1, IMAGE_CHUNK_SIZE}, write_ok \in BOOLEAN : ImgChunk(n, write_ok)
    \/ \E exc \in {"Timeout", "ConnectionError"} : ImgStreamError(exc)
    \/ \E close_ok \in BOOLEAN : ImgEnd(close_ok)

SpecImage == InitImage /\ [][NextImage]_vars

-----------------------------------------------------------------------------
(* SpecTracker: EpubTracker.save and EpubTracker.load on the file itself   *)

\* The record load returns when there is nothing to read; 'last_updated':
\* None is the string "None" here.
EmptyLedger ==
    [title |-> "", author |-> "", url |-> "", post_links |-> <<>>,
     last_updated |-> "None"]

\* What can be at tracker_path: nothing; the JSON document a save wrote; text
\* that is not JSON (a document cut short, an empty file); bytes that are not
\* UTF-8 (a document cut inside a multi-byte character); or something that
\* cannot be opened for reading (a directory, a file without permission).
MissingFile == [kind |-> "missing", doc |-> <<>>]
BadJsonFile == [kind |-> "bad_json", doc |-> <<>>]
BadUtf8File == [kind |-> "bad_utf8", doc |-> <<>>]
UnreadableFile == [kind |-> "unreadable", doc |-> <<>>]

\* json.dump(data, f, indent=2, ensure_ascii=False): the members of the
\* object in order, strings as JSON strings, the list as a JSON array.
JsonDump(data) ==
    << <<"title", [json |-> "string", s |-> data.title]>>,
       <<"author", [json |-> "string", s |-> data.author]>>,
       <<"url", [json |-> "string", s |-> data.url]>>,
       <<"post_links", [json |-> "array",
                        items |-> [i \in 1..Len(data.post_links) |->
                                      [json |-> "string", s |-> data.post_links[i]]]]>>,
       <<"last_updated", [json |-> "string", s |-> data.last_updated]>> >>

\* the member of a JSON object with the given name
Member(doc, name) == doc[CHOOSE i \in 1..Len(doc) : doc[i][1] = name][2]

\* A reader that forgets the links of the document.
JsonLoad_NoLinks(doc) ==
    [title |-> Member(doc, "title").s,
     author |-> Member(doc, "author").s,
     url |-> Member(doc, "url").s,
     post_links |-> <<>>,
     last_updated |-> Member(doc, "last_updated").s]

\* json.load(f) on such a document: a dict of str and list values
JsonLoad(doc) ==
    [title |-> Member(doc, "title").s,
     author |-> Member(doc, "author").s,
     url |-> Member(doc, "url").s,
     post_links |-> [i \in 1..Len(Member(doc, "post_links").items) |->
                        Member(doc, "post_links").items[i].s],
     last_updated |-> Member(doc, "last_updated").s]

\* datetime.now().isoformat()
NowIso == "2024-01-01T00:00:00"

\* whether the text of the document has a character outside ASCII
NonAscii(title) == title = "Café"

\* How the write of save goes: done; open fails (IOError, the file stays);
\* the write fails after the open truncated the file (IOError), leaving text
\* cut short or, with non-ASCII text, bytes cut inside a character.
WriteOutcomes == {"ok", "open_failed", "cut", "cut_in_char"}

\* EpubTracker.save: the file after the call. An IOError is printed and
\* swallowed, so the call returns None in every case.
Save(file, title, author, url, post_links, outcome) ==
    LET data == [title |-> title, author |-> author, url |-> url,
                 post_links |-> post_links, last_updated |-> NowIso]
    IN IF outcome = "ok" THEN [kind |-> "json", doc |-> JsonDump(data)]
       ELSE IF outcome = "open_failed" THEN file
       ELSE IF outcome = "cut_in_char" /\ NonAscii(title) THEN BadUtf8File
       ELSE BadJsonFile

\* EpubTracker.load: the empty ledger for a missing file, for a
\* JSONDecodeError and for an IOError; the decoding of the bytes raises
\* UnicodeDecodeError, a ValueError that is neither.
Load(file) ==
    IF file.kind = "missing" THEN [raised |-> "", value |-> EmptyLedger]
    ELSE IF file.kind = "json" THEN [raised |-> "", value |-> JsonLoad(file.doc)]
    ELSE IF file.kind = "bad_utf8"
    THEN [raised |-> "UnicodeDecodeError", value |-> EmptyLedger]
    ELSE [raised |-> "", value |-> EmptyLedger]

Titles == {"", "News", "Café"}
LinkLists == SeqsUpTo({"l1", "l2"}, MaxLinks)

\* tracker.save(title, author, url, post_links)
SaveCall(title, author, url, post_links, outcome) ==
    /\ pc = "tracker"
    /\ tracker_file' = Save(tracker_file, title, author, url, post_links, outcome)
    /\ loaded' = [pc |-> "saved", title |-> title, author |-> author, url |-> url,
                  post_links |-> post_links, outcome |-> outcome]
    /\ UNCHANGED <<pc, coreVars, concVars, cacheVars, authVars, imageVars, lateVars>>

\* tracker.load(); the record keeps the file it read and, when the call
\* follows a save, the arguments of that save.
LoadCall ==
    /\ pc = "tracker"
    /\ loaded.pc # "loaded"
    /\ LET r == Load(tracker_file)
       IN loaded' = [pc |-> "loaded",
                     raised |-> r.raised,
                     value |-> r.value,
                     file |-> tracker_file,
                     after_save |-> loaded.pc = "saved",
                     saved |-> IF loaded.pc = "saved" THEN loaded ELSE NoCall]
    /\ UNCHANGED <<pc, tracker_file, coreVars, concVars, cacheVars, authVars,
                   imageVars, lateVars>>

\* Something other than the tracker changes the file: it is removed, cut
\* short, or replaced by something that cannot be read.
Damage(file) ==
    /\ pc = "tracker"
    /\ tracker_file # file
    /\ tracker_file' = file
    /\ loaded' = [pc |-> "damaged"]
    /\ UNCHANGED <<pc, coreVars, concVars, cacheVars, authVars, imageVars, lateVars>>

InitTracker ==
    /\ pc = "tracker"
    /\ CoreIdle
    /\ tracker_file = MissingFile
    /\ loaded = NoCall
    /\ ConcIdle /\ CacheIdle /\ AuthIdle /\ ImageIdle /\ LateIdle

NextTracker ==
    \/ \E title \in Titles, post_links \in LinkLists, outcome \in WriteOutcomes :
          SaveCall(title, "author", "https://example.substack.com", post_links, outcome)
    \/ LoadCall
    \/ \E file \in {MissingFile, BadJsonFile, BadUtf8File, UnreadableFile} : Damage(file)

SpecTracker == InitTracker /\ [][NextTracker]_vars

-----------------------------------------------------------------------------
(* SpecEpub: EPUBFormatter.compile calls on one target path                *)

\* The cleaned posts a compile is given.
EpubPosts ==
    {[link |-> k, pub_date |-> ParseDate(k), repr |-> "object", content |-> "cleaned"] :
        k \in 1..2}

\* compile_to_epub(posts, update_existing=...) on the file at the path
EpubCompileCall(ps, update_existing) ==
    /\ pc = "epub"
    /\ Len(epub.chapters) + Len(ps) <= MaxChapters
    /\ epub0' = epub
    /\ cleaned_posts' = ps
    /\ mode' = IF update_existing THEN "Update Existing EPUB" ELSE "Create New"
    /\ epub' = EpubCompile(epub, ps, update_existing)
    /\ status' = "compiled"
    /\ UNCHANGED <<extVars, pc, remote, ledger, output_file, format_option, fetchVars,
                   metadata_list, calls, ledger0, runs>>

\* The file at the path is removed between two compiles.
EpubRemoved ==
    /\ pc = "epub"
    /\ epub.exists
    /\ epub' = NoEpub
    /\ status' = "removed"
    /\ UNCHANGED <<extVars, pc, remote, ledger, output_file, mode, format_option,
                   fetchVars, metadata_list, cleaned_posts, calls, epub0, ledger0, runs>>

InitEpub ==
    /\ pc = "epub"
    /\ CoreIdle
    /\ ExtIdle

NextEpub ==
    \/ \E ps \in SeqsUpTo(EpubPosts, MaxNew), update_existing \in BOOLEAN :
          EpubCompileCall(ps, update_existing)
    \/ EpubRemoved

SpecEpub == InitEpub /\ [][NextEpub]_vars

-----------------------------------------------------------------------------
(* SpecParser: parse_content on a wrapper element holding one anchor       *)

\* The pieces an anchor's inner HTML is written from: runs of characters, and
\* "button" for a <button>x</button> element. "Sub" followed by "scribe" is
\* the only way the text "subscribe" (in any case) arises.
TextTokens == {"Sub", "scribe", "more"}
Tokens == TextTokens \cup {"button"}

\* The empty string.
EmptyHtml == [wrapper |-> "", wrapper_class |-> "", anchor |-> FALSE,
              a_class |-> "", inner |-> <<>>]

\* HTML texts: <wrapper class=wrapper_class><a class=a_class>inner</a></wrapper>
HtmlInputs ==
    [wrapper : {"div", "p"}, wrapper_class : {"", "subscribe-box"}, anchor : {TRUE},
     a_class : {"", "button"}, inner : SeqsUpTo(Tokens, MaxTokens)]

TextNode(text) == [name |-> "text", text |-> text]
ButtonNode == [name |-> "button", text |-> <<>>]

\* The children html.parser builds from inner HTML: a maximal run of
\* characters becomes ONE text node, a button element one tag.
RECURSIVE Children(_)
Children(inner) ==
    IF inner = <<>> THEN <<>>
    ELSE LET rest == Children(Tail(inner))
             t == Head(inner)
         IN IF t = "button" THEN <<ButtonNode>> \o rest
            ELSE IF rest # <<>> /\ Head(rest).name = "text"
                 THEN <<TextNode(<<t>> \o Head(rest).text)>> \o Tail(rest)
                 ELSE <<TextNode(<<t>>)>> \o rest

\* BeautifulSoup(raw_html, 'html.parser')
BeautifulSoup(h) ==
    [wrapper |-> h.wrapper, wrapper_class |-> h.wrapper_class, anchor |-> h.anchor,
     a_class |-> h.a_class, children |-> Children(h.inner)]

\* str(soup): the children written out one after the other
RECURSIVE InnerHtml(_)
InnerHtml(children) ==
    IF children = <<>> THEN <<>>
    ELSE (IF Head(children).name = "button" THEN <<"button">> ELSE Head(children).text)
         \o InnerHtml(Tail(children))

Str(soup) ==
    IF soup.wrapper = "" THEN EmptyHtml
    ELSE [wrapper |-> soup.wrapper, wrapper_class |-> soup.wrapper_class,
          anchor |-> soup.anchor, a_class |-> soup.a_class,
          inner |-> InnerHtml(soup.children)]

EmptySoup == [wrapper |-> "", wrapper_class |-> "", anchor |-> FALSE,
              a_class |-> "", children |-> <<>>]

\* the selector loop: div[class*="subscribe"] takes the wrapper with all it
\* holds; button takes every button element. decompose() removes a node and
\* leaves its siblings as they are: two text nodes stay two text nodes.
RECURSIVE WithoutButtons(_)
WithoutButtons(children) ==
    IF children = <<>> THEN <<>>
    ELSE IF Head(children).name = "button" THEN WithoutButtons(Tail(children))
         ELSE <<Head(children)>> \o WithoutButtons(Tail(children))

RemoveSelectors(soup) ==
    IF soup.wrapper = "div" /\ soup.wrapper_class = "subscribe-box" THEN EmptySoup
    ELSE [soup EXCEPT !.children = WithoutButtons(soup.children)]

\* "subscribe" in text.lower()
HasSubscribe(text) ==
    \E i \in 1..(Len(text) - 1) : text[i] = "Sub" /\ text[i + 1] = "scribe"

\* Tag.string: the text of the only child, None ("none") for a tag with no
\* child or with several.
TagString(children) ==
    IF Len(children) = 1 /\ children[1].name = "text"
    THEN [none |-> FALSE, text |-> children[1].text]
    ELSE [none |-> TRUE, text |-> <<>>]

\* find_all('a', string=lambda text: text and "subscribe" in text.lower())
StringMatches(children) ==
    LET string == TagString(children)
    IN ~string.none /\ HasSubscribe(string.text)

\* the loop over the matching anchors
RemoveSubscribeLinks(soup) ==
    IF /\ soup.anchor
       /\ StringMatches(soup.children)
       /\ (soup.wrapper = "div" \/ soup.a_class = "button")
    THEN [soup EXCEPT !.anchor = FALSE, !.a_class = "", !.children = <<>>]
    ELSE soup

\* SubstackParser.parse_content on HTML text
ParseContentHtml(h) ==
    IF h = EmptyHtml THEN EmptyHtml
    ELSE Str(RemoveSubscribeLinks(RemoveSelectors(BeautifulSoup(h))))

\* parse_content(raw_html)
ParseOnce ==
    /\ pc = "parser"
    /\ reparsed.pc = "idle"
    /\ reparsed' = [pc |-> "once", once |-> ParseContentHtml(raw_html),
                  twice |-> EmptyHtml]
    /\ UNCHANGED <<coreVars, pc, concVars, cacheVars, authVars, imageVars, trackerVars,
                   netVars, pairVars, raw_html>>

\* parse_content of what the first call returned
ParseTwice ==
    /\ pc = "parser"
    /\ reparsed.pc = "once"
    /\ reparsed' = [reparsed EXCEPT !.pc = "twice", !.twice = ParseContentHtml(reparsed.once)]
    /\ UNCHANGED <<coreVars, pc, concVars, cacheVars, authVars, imageVars, trackerVars,
                   netVars, pairVars, raw_html>>

InitParser ==
    /\ pc = "parser"
    /\ CoreIdle
    /\ ConcIdle /\ CacheIdle /\ AuthIdle /\ ImageIdle /\ TrackerIdle /\ NetIdle /\ PairIdle
    /\ raw_html \in HtmlInputs \cup {EmptyHtml}
    /\ reparsed = NoCall

NextParser ==
    \/ ParseOnce
    \/ ParseTwice

SpecParser == InitParser /\ [][NextParser]_vars

-----------------------------------------------------------------------------
(* SpecRetry: one network operation of a run and the transport under it    *)

\* The network operations of a run.
Operations == {"get_newsletter_title", "fetch_archive_metadata", "fetch_post_content",
               "download_image"}

\* What one attempt can meet: an HTTP status, a timeout or a connection error.
Answers ==
    [kind : {"status"}, code : {200, 404} \cup RETRY_STATUS_CODES]
        \cup {[kind |-> "timeout", code |-> 0], [kind |-> "connection", code |-> 0]}

\* The retries the transport under the operation makes: the fetcher's session
\* mounts Retry(total=MAX_RETRIES, status_forcelist=RETRY_STATUS_CODES);
\* download_image calls requests.get, whose own session retries nothing.
RetryTotal(op) == IF op = "download_image" THEN 0 ELSE MAX_RETRIES

\* The statuses the transport retries for the operation.
StatusForcelist(op) == IF op = "download_image" THEN {} ELSE RETRY_STATUS_CODES

\* Does the transport make another attempt after this answer?
Retried(op, answer, attempts) ==
    /\ attempts <= RetryTotal(op)
    /\ \/ answer.kind \in {"timeout", "connection"}
       \/ answer.kind = "status" /\ answer.code \in StatusForcelist(op)

\* What the operation's handlers make of a failure.
Fallback(op) ==
    CASE op = "get_newsletter_title" -> "Substack Archive"
      [] op = "fetch_archive_metadata" -> "break"
      [] op = "fetch_post_content" -> "empty string"
      [] op = "download_image" -> "(None, None)"

\* the operation sends its GET
NetCall(op) ==
    /\ pc = "net"
    /\ net.pc = "idle"
    /\ net' = [pc |-> "sending", op |-> op, answers |-> <<>>, outcome |-> "none"]
    /\ UNCHANGED <<coreVars, pc, concVars, cacheVars, authVars, imageVars, trackerVars,
                   parserVars, pairVars>>

\* one attempt is answered: the transport retries, or the operation ends with
\* the response or, through raise_for_status and its except clauses, with
\* its fallback
NetAttempt(answer) ==
    /\ pc = "net"
    /\ net.pc = "sending"
    /\ LET attempts == Len(net.answers) + 1
       IN net' = [net EXCEPT
                    !.answers = Append(@, answer),
                    !.pc = IF Retried(net.op, answer, attempts) THEN "sending" ELSE "done",
                    !.outcome = IF Retried(net.op, answer, attempts) THEN "none"
                                ELSE IF answer.kind = "status" /\ answer.code = 200
                                     THEN "response"
                                     ELSE Fallback(net.op)]
    /\ UNCHANGED <<coreVars, pc, concVars, cacheVars, authVars, imageVars, trackerVars,
                   parserVars, pairVars>>

InitRetry ==
    /\ pc = "net"
    /\ CoreIdle
    /\ ExtIdle

NextRetry ==
    \/ \E op \in Operations : NetCall(op)
    \/ \E answer \in Answers : NetAttempt(answer)

SpecRetry == InitRetry /\ [][NextRetry]_vars

-----------------------------------------------------------------------------
(* SpecShift: run_download while the newsletter goes on publishing         *)

\* The newsletter publishes a post while a fetch is between two page
\* requests: every item of the newest-first archive moves one place down.
PublishDuringFetch ==
    /\ pc = "fetch_metadata"
    /\ fstate = "loop"
    /\ Len(remote) < MaxShiftItems
    /\ remote' = <<Item("ok", Len(remote) + 1, TRUE)>> \o remote
    /\ UNCHANGED <<extVars, fileVars, pc, mode, format_option, fetchVars, metadata_list,
                   cleaned_posts, status, calls, epub0, ledger0, runs>>

\* An archive of just under or exactly one page before the first run.
InitShift ==
    /\ remote \in {MkArchive(n, [kind |-> "none", from |-> 0, len |-> 0]) :
                    n \in {API_LIMIT_PER_REQUEST - 1, API_LIMIT_PER_REQUEST}}
    /\ epub = NoEpub
    /\ ledger = NoFile
    /\ output_file = "none"
    /\ pc = "idle"
    /\ mode = "Create New"
    /\ format_option = "EPUB"
    /\ limit = 0
    /\ posts = <<>>
    /\ offset = 0
    /\ requests = 0
    /\ failed = "none"
    /\ fstate = "idle"
    /\ result = <<>>
    /\ metadata_list = <<>>
    /\ cleaned_posts = <<>>
    /\ status = "none"
    /\ calls = {}
    /\ epub0 = NoEpub
    /\ ledger0 = NoFile
    /\ runs = 0
    /\ ExtIdle

NextShift ==
    \/ \E m \in Modes : StartRun(m, 0, "EPUB")
    \/ RunFetchPage
    \/ AfterFetch
    \/ FetchContent(TRUE)
    \/ \E ok \in BOOLEAN : Compile(ok)
    \/ \E io_ok \in BOOLEAN : SaveLedger(io_ok)
    \/ PublishDuringFetch

SpecShift == InitShift /\ [][NextShift]_vars

-----------------------------------------------------------------------------
(* SpecPair: run_download calls for several newsletters, one OUTPUT_DIR    *)

\* The newsletters, by URL, and the <title> of their pages.
NewsletterUrls == {"https://a.substack.com", "https://b.substack.com",
                   "https://c.substack.com"}

SiteTitle(url) ==
    CASE url = "https://a.substack.com" -> "A News"
      [] url = "https://b.substack.com" -> "B News"
      [] url = "https://c.substack.com" -> "A/News"

\* get_newsletter_title: the page's title, "Substack Archive" when the
\* request fails or the page has no title
NewsletterTitle(url, title_ok) == IF title_ok THEN SiteTitle(url) ELSE "Substack Archive"

\* epub_path: sanitize_filename(title) with blanks replaced, under OUTPUT_DIR
\* ('/' becomes '_', and so does ' ')
EpubPath(title) ==
    CASE title = "A News" -> "output/A_News.epub"
      [] title = "A/News" -> "output/A_News.epub"
      [] title = "B News" -> "output/B_News.epub"
      [] title = "Substack Archive" -> "output/Substack_Archive.epub"

Paths == {EpubPath(NewsletterTitle(url, title_ok)) :
             url \in NewsletterUrls, title_ok \in BOOLEAN}

\* No EPUB and no tracker file at a path.
NoPair == [epub |-> FALSE, epub_url |-> "", ledger |-> FALSE, url |-> ""]

\* One run_download call in create mode with format EPUB or in update mode:
\* the path comes from the title alone; update mode asks tracker.exists()
\* and reads the tracker in get_new_posts (a TypeError for a non-empty
\* fetch); create mode compiles a fresh book at the path and saves the
\* tracker with the url of this run.
PairRun(url, m, title_ok, fetch_ok, io_ok) ==
    /\ pc = "pair"
    /\ LET path == EpubPath(NewsletterTitle(url, title_ok))
           pair == output_dir[path]
           run == [pc |-> "done", url |-> url, mode |-> m, path |-> path, before |-> pair,
                   status |-> "none", read |-> FALSE, wrote |-> FALSE]
       IN IF m = "Update Existing EPUB"
          THEN /\ output_dir' = output_dir
               /\ last_run' =
                     IF ~(pair.epub /\ pair.ledger)
                     THEN [run EXCEPT !.status = "missing_epub"]
                     ELSE [run EXCEPT !.read = TRUE,
                                      !.status = IF fetch_ok THEN "TypeError"
                                                 ELSE "no_new_posts"]
          ELSE IF ~fetch_ok
               THEN /\ output_dir' = output_dir
                    /\ last_run' = [run EXCEPT !.status = "no_posts"]
               ELSE /\ output_dir' =
                          [output_dir EXCEPT ![path] =
                              [epub |-> TRUE, epub_url |-> url,
                               ledger |-> IF io_ok THEN TRUE ELSE pair.ledger,
                               url |-> IF io_ok THEN url ELSE pair.url]]
                    /\ last_run' = [run EXCEPT !.wrote = TRUE, !.status = "ok"]
    /\ UNCHANGED <<coreVars, pc, concVars, cacheVars, authVars, imageVars, trackerVars,
                   parserVars, netVars>>

InitPair ==
    /\ pc = "pair"
    /\ CoreIdle
    /\ ConcIdle /\ CacheIdle /\ AuthIdle /\ ImageIdle /\ TrackerIdle /\ ParserIdle /\ NetIdle
    /\ output_dir = [path \in Paths |-> NoPair]
    /\ last_run = [pc |-> "idle", url |-> "", mode |-> "Create New", path |-> "",
                   before |-> NoPair, status |-> "none", read |-> FALSE, wrote |-> FALSE]

NextPair ==
    \E url \in NewsletterUrls, m \in Modes, title_ok, fetch_ok, io_ok \in BOOLEAN :
        PairRun(url, m, title_ok, fetch_ok, io_ok)

SpecPair == InitPair /\ [][NextPair]_vars

-----------------------------------------------------------------------------
(* The claims                                                              *)

Count(x, s) == Cardinality({i \in 1..Len(s) : s[i] = x})

ChapterPosts(e) == [i \in 1..Len(e.chapters) |-> e.chapters[i].post]

LedgerLinks(l) == Range(l.post_links)

\* the run is over and was not cut short from outside
Returned == pc = "end" /\ status # "interrupted"

\* C1: in an update-mode run, a post of the fetched archive whose link the
\* ledger held when the run started gets no new chapter, is not among the
\* posts handed to the compiler, and its link is not appended to the ledger
\* again.
C1_NoReAdd ==
    (IsUpdate /\ pc # "idle") =>
        \A p \in Range(result) :
            p.link \in LedgerLinks(ledger0) =>
                /\ Count(p.link, ChapterPosts(epub)) = Count(p.link, ChapterPosts(epub0))
                /\ Count(p.link, ledger.post_links) = Count(p.link, ledger0.post_links)
                /\ p.link \notin Range(Links(metadata_list))
                /\ p.link \notin Range(Links(cleaned_posts))

\* an update run that fetched a post the ledger already held has returned
C1_Witness ==
    /\ IsUpdate
    /\ Returned
    /\ fstate = "returned"
    /\ \E p \in Range(result) : p.link \in LedgerLinks(ledger0)

\* C2 as claimed: in every reachable state each link of the persisted ledger
\* belongs to a post whose chapter is in the persisted EPUB.
C2_Claim == LedgerLinks(ledger) \subseteq Range(ChapterPosts(epub))

\* C2 as amended: the ledger file changes only in the step after
\* compile_to_epub has returned, and what is written then holds only links of
\* posts whose chapter is in the EPUB; and a step that does not rewrite the
\* EPUB never breaks that inclusion (only a compile over an existing EPUB
\* does, until the save that follows it).
C2_LedgerAfterCompile ==
    [][/\ ledger' # ledger =>
            /\ pc = "save_ledger"
            /\ "compile_to_epub" \in calls
            /\ LedgerLinks(ledger') \subseteq Range(ChapterPosts(epub'))
       /\ (epub' = epub /\ LedgerLinks(ledger) \subseteq Range(ChapterPosts(epub))) =>
            LedgerLinks(ledger') \subseteq Range(ChapterPosts(epub'))]_vars

\* a create run over an existing pair has rewritten the EPUB and then the ledger
C2_Witness ==
    /\ Returned
    /\ status = "ok"
    /\ "tracker.save" \in calls
    /\ ledger0.exists
    /\ ledger # ledger0

\* C3: an update-mode run that finds the EPUB file or the ledger file (or
\* both) missing returns missing_epub and has fetched no archive page and no
\* post content, compiled nothing and written no file.
C3_MissingBase ==
    (IsUpdate /\ pc # "idle" /\ ~(epub0.exists /\ ledger0.exists)) =>
        /\ pc = "end"
        /\ status = "missing_epub"
        /\ calls = {"get_newsletter_title"}
        /\ requests = 0
        /\ fstate = "idle"
        /\ cleaned_posts = <<>>
        /\ output_file = "none"
        /\ epub = epub0
        /\ ledger = ledger0

\* an update run has returned missing_epub with the ledger there and the EPUB gone
C3_Witness ==
    /\ IsUpdate
    /\ pc = "end"
    /\ status = "missing_epub"
    /\ ledger0.exists
    /\ ~epub0.exists

\* C4 as claimed: an update-mode run whose diff against the ledger is empty
\* returns no_new_posts, has fetched no post content and compiled nothing,
\* and leaves the EPUB and the ledger as they were.
C4_Claim ==
    (/\ IsUpdate
     /\ Returned
     /\ fstate = "returned"
     /\ \A p \in Range(result) : p.link \in LedgerLinks(ledger0)) =>
        /\ status = "no_new_posts"
        /\ calls \cap {"fetch_post_content", "compile_to_epub", "compile_other",
                       "tracker.save", "tracker.save:IOError"} = {}
        /\ epub = epub0
        /\ ledger = ledger0

\* C5 as claimed: get_new_posts returns exactly the posts whose link is not
\* in the ledger, in input order, for mappings and for Post objects alike.
C5_Claim ==
    (pc = "diff_done") =>
        /\ status = "returned"
        /\ metadata_list =
              SelectSeq(result, LAMBDA post : post.link \notin LedgerLinks(ledger))

\* C6 as claimed: after a create run over S, an update run that meets no
\* network or disk failure and finds the archive holding S plus new posts,
\* all with parseable dates, leaves an EPUB with as many chapters, and a ledger with as many links, as
\* the archive has posts.
C6_Claim ==
    (/\ IsUpdate
     /\ Returned
     /\ epub0.exists /\ ledger0.exists
     /\ ChapterPosts(epub0) = ledger0.post_links
     /\ \A l \in LedgerLinks(ledger0) : Count(l, ledger0.post_links) = 1
     /\ LedgerLinks(ledger0) \subseteq {remote[i].canonical_url : i \in 1..Len(remote)}
     /\ \A i \in 1..Len(remote) : remote[i].post_date # 0
     /\ fstate = "returned" /\ failed = "none"
     /\ status # "CompileError"
     /\ "tracker.save:IOError" \notin calls) =>
        /\ Len(epub.chapters) = Len(remote)
        /\ Len(ledger.post_links) = Len(remote)

\* what the claims call an item with a usable link
Usable(item) == item.kind = "ok"

NumUsable(items) == Cardinality({i \in 1..Len(items) : Usable(items[i])})

UsableLinks(items) == {items[i].canonical_url : i \in {j \in 1..Len(items) : Usable(items[j])}}

SortedByDate(ps) ==
    \A i, j \in 1..Len(ps) : i < j => ps[i].pub_date.t <= ps[j].pub_date.t

\* the fetch is over: it returned or it raised
FetchDone == fstate \in {"returned", "raised"}

\* the page request that serves the item at position pos
PageOf(pos) == ((pos - 1) \div API_LIMIT_PER_REQUEST) + 1

\* the position of the n-th usable item of the archive
PosOfNth(items, n) ==
    CHOOSE i \in 1..Len(items) :
        Usable(items[i]) /\ NumUsable(SubSeq(items, 1, i)) = n

\* C7 as claimed: whatever the limit, over pages whose items are all valid
\* and all served, the returned sequence is sorted non-decreasing by date.
C7_Claim ==
    (/\ fstate = "returned"
     /\ failed = "none"
     /\ \A i \in 1..Len(remote) : Usable(remote[i]) /\ remote[i].post_date # 0) =>
        SortedByDate(result)

\* C8 as claimed: a fetch without a limit over a finite archive, every page
\* served, returns every item with a usable link exactly once, and asks for
\* every page of the archive whatever items the pages hold.
C8_Claim ==
    (FetchDone /\ limit = 0 /\ failed = "none") =>
        /\ fstate = "returned"
        /\ Len(result) = NumUsable(remote)
        /\ Range(Links(result)) = UsableLinks(remote)
        /\ requests = (Len(remote) \div API_LIMIT_PER_REQUEST) + 1

\* C9 as claimed: with every page served, a positive limit n gives
\* min(n, usable items) posts and no page is requested after the one that
\* holds the n-th usable item; without a limit everything is accumulated.
C9_Claim ==
    (FetchDone /\ failed = "none") =>
        /\ limit > 0 =>
            /\ fstate = "returned"
            /\ Len(result) = Min(limit, NumUsable(remote))
            /\ NumUsable(remote) >= limit =>
                  requests = PageOf(PosOfNth(remote, limit))
        /\ limit = 0 => Len(posts) = NumUsable(remote)

\* C10 as claimed: when a page request fails or its body has no list of
\* posts, the fetch does not raise and returns the posts of the pages before.
C10_Claim ==
    (FetchDone /\ failed # "none") =>
        /\ fstate = "returned"
        /\ Len(result) = NumUsable(SubSeq(remote, 1, offset))
        /\ Range(Links(result)) = UsableLinks(SubSeq(remote, 1, offset))

\* the futures whose handling wrote the content of post i
WritersOf(i) == {j \in 1..Len(futures) : futures[j].wrote = i}

\* C11: in fetch_all_content_concurrent, whatever the order in which the
\* workers finish and whichever fetches fail, the content of a post is set at
\* most once, and exactly once by the time the call returns; it is set to the
\* result of the fetch of the post's own link, or to the empty string when
\* that fetch failed or raised; a post not yet handled keeps its content, and
\* the call always returns.
C11_OwnContentOnce ==
    /\ \A i \in 1..Len(post_list) :
          /\ Cardinality(WritersOf(i)) <= 1
          /\ pc = "conc_done" => Cardinality(WritersOf(i)) = 1
          /\ IF WritersOf(i) = {}
             THEN post_list[i].content = ""
             ELSE /\ futures[i].state = "yielded"
                  /\ post_list[i].content =
                        IF futures[i].exc THEN "" ELSE futures[i].result
                  /\ futures[i].result \in {"", Html(post_list[i].link)}
    /\ pc = "conc_done" => conc_result.pc = "returned"

\* the call is back over three posts: one fetch failed, one raised, and the
\* last post was handled before the first
C11_Witness ==
    /\ pc = "conc_done"
    /\ Len(post_list) = 3
    /\ futures[1].result = "" /\ ~futures[1].exc
    /\ futures[2].exc
    /\ post_list[3].content = Html(post_list[3].link)
    /\ post_list[1].link # post_list[3].link
    /\ futures[3].at < futures[1].at

\* C12: fetch_all_content_concurrent returns as many posts as it was given,
\* the same posts in the same (ascending-date) order, whatever the order in
\* which the workers completed.
C12_SameOrder ==
    pc = "conc_done" =>
        /\ Len(conc_result.posts) = Len(post_list)
        /\ \A i \in 1..Len(post_list) :
              /\ conc_result.posts[i].link = post_list[i].link
              /\ conc_result.posts[i].pub_date = ParseDate(i)
              /\ conc_result.posts[i].content = post_list[i].content
        /\ SortedByDate(conc_result.posts)

\* the call is back over three posts whose futures were handled last to first
C12_Witness ==
    /\ pc = "conc_done"
    /\ Len(conc_result.posts) = 3
    /\ futures[3].at = 1 /\ futures[2].at = 2 /\ futures[1].at = 3
    /\ conc_result.posts[1].content # ""

C14_Claim ==
    (last_fetch.pc = "returned" /\ last_fetch.enable_cache) =>
        last_fetch.value = last_fetch.uncached

\* C14 as amended: a fetch_post_content call with the cache enabled returns
\* what a call with the cache disabled returns whenever it finds no loadable
\* entry for the URL, or the server still holds the content the entry was
\* written from; when it finds an entry it returns the stored content,
\* whatever the server holds now.
C14_CacheTransparentWhileFresh ==
    (last_fetch.pc = "returned" /\ last_fetch.enable_cache) =>
        /\ last_fetch.found.kind # "pickle" => last_fetch.value = last_fetch.uncached
        /\ last_fetch.found.kind = "pickle" => last_fetch.value = last_fetch.found.content
        /\ (/\ last_fetch.found.kind = "pickle"
            /\ last_fetch.found.content = last_fetch.uncached) =>
              last_fetch.value = last_fetch.uncached

\* a cached fetch has returned the stored content of a page the server has
\* changed since
C14_Witness ==
    /\ last_fetch.pc = "returned"
    /\ last_fetch.enable_cache
    /\ last_fetch.found.kind = "pickle"
    /\ last_fetch.uncached # ""
    /\ last_fetch.value # last_fetch.uncached

\* C15: with the cache enabled, a fetch that finds an entry for its URL
\* returns the stored content and issues no request; the first fetch after
\* clear_cache issues a request; and an entry appears or changes only in a
\* fetch that issued a request and got non-empty content, which is the
\* content stored.
C15_CacheDiscipline ==
    /\ [](/\ (/\ last_fetch.pc = "returned"
              /\ last_fetch.enable_cache
              /\ last_fetch.found.kind = "pickle") =>
                /\ ~last_fetch.requested
                /\ last_fetch.value = last_fetch.found.content
          /\ (last_fetch.pc = "returned" /\ last_fetch.after_clear) =>
                last_fetch.requested
          /\ \A k \in DOMAIN cache :
                cache[k].kind = "pickle" => cache[k].content # "")
    /\ [][/\ (last_fetch'.pc = "returned" /\ ~last_fetch'.requested) =>
                net_requests' = net_requests
          /\ \A k \in DOMAIN cache :
                (cache'[k] # cache[k] /\ cache'[k].kind = "pickle") =>
                    /\ last_fetch'.pc = "returned"
                    /\ last_fetch'.enable_cache
                    /\ last_fetch'.requested
                    /\ net_requests' = net_requests + 1
                    /\ k = GetCacheKey(last_fetch'.url)
                    /\ last_fetch'.value # ""
                    /\ cache'[k].content = last_fetch'.value]_vars

\* a cached fetch has found an entry and issued no request, after requests
\* that wrote it
C15_Witness ==
    /\ last_fetch.pc = "returned"
    /\ last_fetch.enable_cache
    /\ last_fetch.found.kind = "pickle"
    /\ ~last_fetch.requested
    /\ net_requests > 0

\* the url argument is empty, not a string, or has no scheme or no host
BadUrl(url) ==
    \/ url.type # "str"
    \/ url.text = ""
    \/ UrlParse(url.text).scheme = ""
    \/ UrlParse(url.text).netloc = ""

\* C16: constructing the fetcher with an HTTP URL and a credential, or with
\* an empty, non-string or scheme-less URL, raises ValueError with no session
\* created and no request made; and no request to the base URL ever carries
\* the cookie over HTTP.
C16_FailFast ==
    /\ auth.pc # "idle" =>
          ((\/ BadUrl(auth.url)
            \/ (UrlParse(auth.url.text).scheme = "http" /\ Truthy(auth.cookie))) =>
              /\ fetcher.pc = "raised"
              /\ fetcher.error = "ValueError"
              /\ ~fetcher.session
              /\ fetcher.sent = {})
    /\ fetcher.pc # "idle" =>
          \A r \in fetcher.sent : ~(r.to = "base" /\ r.scheme = "http" /\ r.cookie # "")

\* the constructor has refused an upper-case HTTP URL that came with a cookie
C16_Witness ==
    /\ auth.pc = "constructed"
    /\ auth.url.text = "HTTP://example.substack.com"
    /\ auth.cookie.text = "abc"
    /\ fetcher.pc = "raised"

\* C17: verify_auth returns true exactly when a Cookie header is configured
\* and the probe answered 200; without a credential it returns false and has
\* issued no request.
C17_VerifyAuth ==
    auth.pc = "returned" =>
        /\ auth.value = (Truthy(auth.cookie) /\ auth.requested /\ auth.probe = "200")
        /\ ~Truthy(auth.cookie) =>
              /\ ~auth.requested
              /\ \A r \in fetcher.sent : r.to # "probe"
        /\ Truthy(auth.cookie) => auth.requested

\* verify_auth has returned false for a probe answered 401
C17_Witness ==
    /\ auth.pc = "returned"
    /\ Truthy(auth.cookie)
    /\ auth.probe = "401"
    /\ ~auth.value

\* C18: download_image returns (None, None) and leaves the images directory
\* as it found it whenever the declared Content-Length is above the limit,
\* the running total goes above the limit in mid-stream, or a timeout, a
\* transport error or a local write failure occurs; it always returns; and a
\* download that succeeds leaves exactly one new file, of at most the limit
\* in size.
C18_NoPartialFile ==
    /\ img.pc = "returned" =>
          /\ img.cause # "none" => img.value = "none"
          /\ DeclaredTooLarge(img.content_length) => img.cause = "content_length"
          /\ IF img.value = "none"
             THEN images_dir = img.dir0
             ELSE /\ img.cause = "none"
                  /\ img.filepath \notin FileNames(img.dir0)
                  /\ \E f \in images_dir :
                        /\ f.name = img.filepath
                        /\ f.size = img.bytes_written
                        /\ f.size <= MAX_IMAGE_SIZE
                        /\ images_dir = img.dir0 \cup {f}
    /\ img.pc = "stream" => img.bytes_written <= MAX_IMAGE_SIZE

\* a download was cut when the running total passed the limit, and its file
\* is gone
C18_Witness ==
    /\ img.pc = "returned"
    /\ img.cause = "midstream"
    /\ img.filepath # 0
    /\ img.bytes_written = MAX_IMAGE_SIZE
    /\ img.dir0 # {}

\* load has just returned or raised, right after a save
LoadedAfterSave == loaded.pc = "loaded" /\ loaded.after_save

\* what a load that follows a save of these arguments is said to return
RoundTrip ==
    /\ loaded.raised = ""
    /\ loaded.value.title = loaded.saved.title
    /\ loaded.value.author = loaded.saved.author
    /\ loaded.value.url = loaded.saved.url
    /\ loaded.value.post_links = loaded.saved.post_links
    /\ loaded.value.last_updated # "None"

C20_Claim ==
    loaded.pc = "loaded" =>
        /\ loaded.raised = ""
        /\ loaded.file.kind # "json" => loaded.value = EmptyLedger
        /\ tracker_file = loaded.file

\* C21: a compile with update_existing true over an existing EPUB of n
\* chapters keeps them and appends the k new posts as chap_{n+1} ..
\* chap_{n+k}; a compile with update_existing false, or with no file at the
\* path, builds a book of the new posts numbered from chap_1; and after any
\* number of compiles no two chapters of the EPUB share a file name.
C21_AppendNumbering ==
    /\ status = "compiled" =>
          LET n == IF IsUpdate /\ epub0.exists THEN Len(epub0.chapters) ELSE 0
              k == Len(cleaned_posts)
          IN /\ epub.exists
             /\ Len(epub.chapters) = n + k
             /\ \A i \in 1..n : epub.chapters[i] = epub0.chapters[i]
             /\ \A i \in 1..k :
                   /\ epub.chapters[n + i].file_name = n + i
                   /\ epub.chapters[n + i].post = cleaned_posts[i].link
    /\ \A i, j \in 1..Len(epub.chapters) :
          i # j => epub.chapters[i].file_name # epub.chapters[j].file_name

\* an update has appended two chapters to an EPUB that an earlier update had
\* already extended
C21_Witness ==
    /\ status = "compiled"
    /\ IsUpdate
    /\ Len(epub0.chapters) = 2
    /\ epub0.chapters[2].post # epub0.chapters[1].post
    /\ Len(cleaned_posts) = 2
    /\ Len(epub.chapters) = MaxChapters

\* C22: parse_content is idempotent: for every HTML input h,
\* parse_content(parse_content(h)) = parse_content(h), also when removing a
\* button changes which anchors have "subscribe" as their text.
C22_Claim ==
    reparsed.pc = "twice" => reparsed.twice = reparsed.once

\* C23: every network operation of a run (title fetch, metadata page, content
\* fetch, image download) is retried on 429, 500, 502, 503 and 504 at most
\* MAX_RETRIES times, so it gives up on such a status only after
\* MAX_RETRIES + 1 attempts, and it then ends with its fallback, never with
\* an exception.
Transient(answer) == answer.kind = "status" /\ answer.code \in RETRY_STATUS_CODES

C23_Claim ==
    net.pc = "done" =>
       /\ Len(net.answers) <= MAX_RETRIES + 1
       /\ net.outcome \in {"response", Fallback(net.op)}
       /\ Transient(net.answers[Len(net.answers)]) =>
             /\ net.outcome = Fallback(net.op)
             /\ Len(net.answers) = MAX_RETRIES + 1

\* C24: an update-mode run compiles to the EPUB artifact whatever
\* format_option says (it ends without a compile only with missing_epub or
\* no_new_posts, or when it is interrupted), and a run that compiles PDF,
\* JSON, HTML, TXT or Markdown leaves the EPUB file and the ledger file as
\* they were when it started.
C24_UpdateCompilesEpub ==
    /\ IsUpdate => "compile_other" \notin calls
    /\ pc = "end" /\ IsUpdate /\ status \notin {"missing_epub", "no_new_posts", "interrupted"}
          => "compile_to_epub" \in calls

C24_OtherFormatsFrame ==
    pc \notin {"idle"} /\ runs > 0 /\ ~IsUpdate /\ format_option # "EPUB" =>
       /\ epub = epub0
       /\ ledger = ledger0
       /\ calls \cap {"compile_to_epub", "tracker.save", "tracker.save:IOError"} = {}

C24_Claim == C24_UpdateCompilesEpub /\ C24_OtherFormatsFrame

\* C25: a create-mode EPUB run replaces the ledger's post_links by exactly
\* the links of the posts it compiled; an update-mode run that fetched a post
\* the ledger does not hold stores the previous post_links followed by the
\* links of the newly compiled posts; and an update run never removes a link
\* from the ledger.
C25_CreateReplaces ==
    pc = "end" /\ ~IsUpdate /\ "tracker.save" \in calls =>
       ledger.post_links = Links(cleaned_posts)

C25_UpdateNeverRemoves ==
    pc # "idle" /\ runs > 0 /\ IsUpdate =>
       /\ Len(ledger0.post_links) <= Len(ledger.post_links)
       /\ \A i \in 1..Len(ledger0.post_links) : ledger.post_links[i] = ledger0.post_links[i]

C25_UpdateAppends ==
    /\ pc = "end"
    /\ IsUpdate
    /\ fstate = "returned"
    /\ status \notin {"interrupted", "CompileError"}
    /\ "tracker.save:IOError" \notin calls
    /\ \E i \in 1..Len(result) : result[i].link \notin Range(ledger0.post_links)
    => /\ cleaned_posts # <<>>
       /\ ledger.post_links = ledger0.post_links \o Links(cleaned_posts)

C25_Claim == C25_CreateReplaces /\ C25_UpdateNeverRemoves /\ C25_UpdateAppends

\* C26: fetch_archive_metadata terminates for every finite archive served
\* through the offset protocol: an iteration either ends the fetch or moves
\* the offset on by one full page, so a fetch over N items issues at most
\* floor(N / API_LIMIT_PER_REQUEST) + 1 page requests.
C26_Bound ==
    /\ requests <= (Len(remote) \div API_LIMIT_PER_REQUEST) + 1
    /\ fstate = "loop" =>
          /\ offset = requests * API_LIMIT_PER_REQUEST
          /\ offset <= Len(remote)

\* every iteration is one more page request, and the loop goes on only with
\* the offset one full page further
C26_Iteration ==
    fstate = "loop" =>
       /\ requests' = requests + 1
       /\ fstate' = "loop" => offset' = offset + API_LIMIT_PER_REQUEST
       /\ fstate' # "loop" => FetchDone'

\* the number of requests grows with every iteration and is bounded, so the
\* loop ends after at most floor(N / API_LIMIT_PER_REQUEST) + 1 iterations
C26_Terminates == []C26_Bound /\ [][C26_Iteration]_vars

\* the fetch of an archive of two full pages has ended after three requests
C26_Witness ==
    /\ FetchDone
    /\ Len(remote) = 2 * API_LIMIT_PER_REQUEST
    /\ requests = 3
    /\ failed = "none"

\* C27: after any sequence of create and update runs that returned ok, no
\* link occurs twice in the ledger's post_links and no post has two chapters
\* in the EPUB, also when a fetched snapshot holds the same link twice.
C27_Claim ==
    Returned /\ status = "ok" =>
       /\ \A k \in LedgerLinks(ledger) : Count(k, ledger.post_links) = 1
       /\ \A k \in Range(ChapterPosts(epub)) : Count(k, ChapterPosts(epub)) = 1

C29_Claim ==
    Returned /\ status = "ok" /\ (IsUpdate \/ format_option = "EPUB") =>
       /\ ledger.exists
       /\ Range(Links(cleaned_posts)) \subseteq LedgerLinks(ledger)
       /\ "tracker.save:IOError" \notin calls

\* C30: a run reads or writes only an EPUB/ledger pair whose ledger, if there
\* is one, records the url of the run: an update run appends only to the
\* EPUB of its own newsletter, and runs for two different URLs never share a
\* pair, also when the title fetch of both falls back to the default title.
C30_Claim ==
    last_run.pc = "done" /\ (last_run.read \/ last_run.wrote) =>
       /\ last_run.before.ledger => last_run.before.url = last_run.url
       /\ last_run.before.epub => last_run.before.epub_url = last_run.url

====
